---------------------------- MODULE Spec2Model ----------------------------
(***************************************************************************)
(* A model of pycscope (src/pycscope.py): the tag and line model, the      *)
(* translation context, the tree walker with its dispatch rules, and the   *)
(* per-file driver with the worker threads.                                *)
(*                                                                         *)
(* Text is a sequence of atoms.  An atom is a short string: a whole token  *)
(* (an identifier, a keyword, an operator) or one character of the output  *)
(* format (" ", "\n", "\t", a mark character, a decimal digit).  A parse   *)
(* tree node is a tuple like the one parser.totuple(True) returns: a       *)
(* terminal is <<kind, text, lineno>>, a non-terminal <<kind, child...>>.  *)
(***************************************************************************)
EXTENDS Naturals, Integers, Sequences, FiniteSets, TLC

VARIABLES
    ln,           \* line model: the Line object under a sequence of appends
    lnCount,      \* line model: the number of appends made so far
    lnErr,        \* line model: TRUE once an append raised AssertionError
    src,          \* translator: the source file, a sequence of statements
    stack,        \* translator: the stack of walkAst
    ctx,          \* translator: the Context of the file being translated
    fs,           \* run: the content of every source file, by path
    threadCount,  \* run: the number of threads (option -t)
    gen,          \* run: the paths genFiles has still to yield
    lock,         \* run: the thread that holds the lock, or NoThread
    th,           \* run: per thread, its place in the code and its locals
    indexBuffs,   \* run: the index buffers the worker threads handed over
    fnamesBuffs,  \* run: the file name buffers the worker threads handed over
    out           \* run: what writeIndex wrote

lvars == <<ln, lnCount, lnErr>>
tvars == <<src, stack, ctx>>
rvars == <<fs, threadCount, gen, lock, th, indexBuffs, fnamesBuffs, out>>
vars == <<ln, lnCount, lnErr, src, stack, ctx,
          fs, threadCount, gen, lock, th, indexBuffs, fnamesBuffs, out>>

-----------------------------------------------------------------------------
(* Bounds of the model. *)

MaxAppends == 4         \* appends made to one Line in the line model
MaxLineNo == 2          \* line numbers tried in the line model
MaxStmts == 2           \* top-level statements of a source file
MaxFiles == 2           \* source files of a run
MaxThreads == 2         \* threads of a run (option -t)

-----------------------------------------------------------------------------
(* class Mark *)

FILE == "@"
FUNC_DEF == "$"
FUNC_CALL == "BACKQUOTE"   \* the back quote character, which a TLA+ string cannot hold
FUNC_END == "}"
INCLUDE == "~"
ASSIGN == "="
CLASS == "c"
GLOBAL == "g"
LOCALDEF == "l"             \* Mark.LOCAL (LOCAL is a TLA+ keyword)
NoMark == ""

MarkValid == {FILE, FUNC_DEF, FUNC_CALL, FUNC_END, INCLUDE, ASSIGN, CLASS, GLOBAL, LOCALDEF}

\* Mark.__init__: a non-empty mark must be one of the valid marks.
MarkOk(mark) == mark = NoMark \/ mark \in MarkValid

\* Mark.format: a tab and the mark character, or nothing.
MarkFormat(mark) == IF mark # NoMark THEN <<"\t", mark>> ELSE <<>>

markFuncEnd == FUNC_END

-----------------------------------------------------------------------------
(* class Symbol, class NonSymbol.  Both are records of the same shape;     *)
(* sym tells which class the span is.                                      *)

Symbol(name, mark) == [sym |-> TRUE, mark |-> mark, text |-> name]

\* Symbol.__init__: a name is required unless the mark is FUNC_END.
SymbolOk(name, mark) == (mark = FUNC_END \/ name # <<>>) /\ MarkOk(mark)

NonSymbol(val) == [sym |-> FALSE, mark |-> NoMark, text |-> val]

\* NonSymbol.__init__: the text must not be empty.
NonSymbolOk(val) == val # <<>>

\* Symbol.__add__: the assertion that both symbols carry the same mark.
SymbolAddOk(self, other) == self.mark = other.mark

\* Symbol.__add__: the names are concatenated.
SymbolAdd(self, other) == [self EXCEPT !.text = self.text \o other.text]

\* NonSymbol.__add__: the texts are joined with one space.
NonSymbolAdd(self, other) == [self EXCEPT !.text = self.text \o <<" ">> \o other.text]

\* Symbol.hasMark
hasMark(self, mark) == self.mark = mark

\* Symbol.format / NonSymbol.format
SpanFormat(item) == IF item.sym THEN MarkFormat(item.mark) \o item.text ELSE item.text

-----------------------------------------------------------------------------
(* class Line *)

Line(num) == [lineno |-> num, contents |-> <<>>, hasSymbol |-> FALSE]

\* Context.commit with no successor sets ctx.line to None.
NoLine == [lineno |-> 0, contents |-> <<>>, hasSymbol |-> FALSE]

LastOf(s) == s[Len(s)]

\* Line.__add__, were no span ever merged into the trailing one
LineMergesNone(self, other) == FALSE

\* The branch of Line.__add__ that merges the span into the trailing one.
LineMerges(self, other) ==
    /\ self.contents # <<>>
    /\ ~(other.sym /\ hasMark(other, markFuncEnd))
    /\ LastOf(self.contents).sym = other.sym

\* Line.__add__ raises when the merge branch concatenates two symbols whose
\* marks differ (the assertion of Symbol.__add__).
LineAddOk(self, other) ==
    LineMerges(self, other) /\ other.sym => SymbolAddOk(LastOf(self.contents), other)

\* Line.__add__, first branch: what a function end marker sets the
\* has-symbol flag to (the code leaves the flag as it is).
FuncEndHasSymbol(self) == self.hasSymbol

\* Line.__add__
LineAdd(self, other) ==
    IF self.contents # <<>> /\ other.sym /\ hasMark(other, markFuncEnd)
    THEN [self EXCEPT
            !.contents = (IF LastOf(self.contents).sym
                          THEN Append(self.contents, NonSymbol(<<" ">>))
                          ELSE self.contents) \o <<other>>,
            !.hasSymbol = FuncEndHasSymbol(self)]
    ELSE IF LineMerges(self, other)
    THEN [self EXCEPT
            !.contents[Len(self.contents)] =
                IF other.sym THEN SymbolAdd(@, other) ELSE NonSymbolAdd(@, other)]
    ELSE [self EXCEPT
            !.contents = Append(self.contents, other),
            !.hasSymbol = self.hasSymbol \/ other.sym]

\* "%d" % n
RECURSIVE Decimal(_)
Decimal(n) ==
    LET d == <<"0", "1", "2", "3", "4", "5", "6", "7", "8", "9">>[(n % 10) + 1]
    IN  IF n < 10 THEN <<d>> ELSE Decimal(n \div 10) \o <<d>>

\* "\n".join(buff)
RECURSIVE JoinLines(_)
JoinLines(buff) ==
    IF buff = <<>> THEN <<>>
    ELSE IF Len(buff) = 1 THEN buff[1]
    ELSE buff[1] \o <<"\n">> \o JoinLines(Tail(buff))

\* Line.format, the initial line number and the first span.
FormatFirst(self) ==
    LET item == self.contents[1]
    IN  IF item.sym
        THEN <<Decimal(self.lineno) \o <<" ">>, SpanFormat(item)>>
        ELSE <<Decimal(self.lineno) \o <<" ">> \o SpanFormat(item)>>

\* Line.format, the loop over the rest of the contents.
RECURSIVE FormatRest(_, _, _)
FormatRest(buff, contents, i) ==
    IF i > Len(contents) THEN buff
    ELSE LET item == contents[i]
             s == SpanFormat(item)
         IN  IF item.sym
             THEN FormatRest(
                    Append(IF LastOf(buff) # <<" ">>
                           THEN [buff EXCEPT ![Len(buff)] = @ \o <<" ">>]
                           ELSE buff,
                           s),
                    contents, i + 1)
             ELSE FormatRest(
                    Append(buff, IF s # <<" ">> THEN <<" ">> \o s ELSE s),
                    contents, i + 1)

\* Line.format, were the block ended by one line break only
FormatOneBreak(self) ==
    IF ~self.hasSymbol THEN <<>>
    ELSE JoinLines(FormatRest(FormatFirst(self), self.contents, 2)) \o <<"\n">>

\* Line.format (also Line.__str__)
Format(self) ==
    IF ~self.hasSymbol THEN <<>>
    ELSE JoinLines(FormatRest(FormatFirst(self), self.contents, 2)) \o <<"\n", "\n">>

-----------------------------------------------------------------------------
(* Parse tree nodes.  The tuples are indexed as in Python: At(ast, 0) is   *)
(* the kind, AtEnd(ast, 1) is ast[-1].                                     *)

At(ast, i) == ast[i + 1]
AtEnd(ast, k) == ast[Len(ast) - k + 1]

\* Kinds of non-terminals (symbol.*): token.ISNONTERMINAL.  The chain of
\* single-child productions between test and power (or_test, and_test,
\* not_test, comparison, expr, ..., factor), none of which has a dispatch
\* rule, is the one node "test".
NonTerminalKinds ==
    {"file_input", "stmt", "simple_stmt", "small_stmt", "compound_stmt",
     "expr_stmt", "testlist", "test", "power", "atom", "trailer", "arglist",
     "argument",
     "augassign", "pass_stmt", "global_stmt", "funcdef", "parameters",
     "suite", "if_stmt", "classdef", "decorated", "decorators", "decorator",
     "import_stmt", "import_name", "dotted_as_names", "dotted_as_name",
     "dotted_name", "subscriptlist", "subscript"}

ISNONTERMINAL(x) == x \in NonTerminalKinds

ISEOF(x) == x = "ENDMARKER"

\* token.PLUSEQUAL .. token.DOUBLESTAREQUAL, and token.DOUBLESLASHEQUAL
AugAssignTokens ==
    {"PLUSEQUAL", "MINEQUAL", "STAREQUAL", "SLASHEQUAL", "PERCENTEQUAL",
     "AMPEREQUAL", "VBAREQUAL", "CIRCUMFLEXEQUAL", "LEFTSHIFTEQUAL",
     "RIGHTSHIFTEQUAL", "DOUBLESTAREQUAL", "DOUBLESLASHEQUAL"}

\* keyword.kwlist, extended with True, False and None
kwlist ==
    {<<k>> : k \in
        {"and", "as", "assert", "break", "class", "continue", "def", "del",
         "elif", "else", "except", "exec", "finally", "for", "from", "global",
         "if", "import", "in", "is", "lambda", "not", "or", "pass", "print",
         "raise", "return", "try", "while", "with", "yield",
         "True", "False", "None"}}

-----------------------------------------------------------------------------
(* class Context.  failed is TRUE once an assertion of the context or of a *)
(* dispatch rule has raised AssertionError: the walk stops there.          *)

Context ==
    [buff |-> <<>>,
     line |-> Line(1),
     marks |-> {},
     mark |-> NoMark,
     indent_lvl |-> 0,
     equal_cnt |-> 0,
     assigned_cnt |-> 0,
     dotted_cnt |-> 0,
     import_cnt |-> 0,
     func_def_lvl |-> -1,
     import_stmt |-> FALSE,
     decorator |-> FALSE,
     failed |-> FALSE]

Fail(c) == [c EXCEPT !.failed = TRUE]

\* "tup in self.marks": the dictionary is keyed by the tuple's value.
InMarks(c, tup) == \E p \in c.marks : p[1] = tup

\* Context.setMark, its two assertions
setMarkOk(c, tup) == ~InMarks(c, tup) /\ At(tup, 0) = "NAME"

\* Context.setMark
setMark(c, tup, mark) ==
    IF setMarkOk(c, tup)
    THEN [c EXCEPT !.marks = @ \cup {<<tup, mark>>}]
    ELSE Fail(c)

\* Context.getMark: the mark returned (the caller has checked membership)
getMark(c, tup) == (CHOOSE p \in c.marks : p[1] = tup)[2]

\* Context.getMark: the association is deleted
delMark(c, tup) == [c EXCEPT !.marks = {p \in @ : p[1] # tup}]

\* Context.commit, were the line appended whatever it renders to
commitAlways(c, lineno) ==
    [c EXCEPT !.buff = Append(@, Format(c.line)),
              !.line = IF lineno # 0 THEN Line(lineno) ELSE NoLine]

\* Context.commit; lineno 0 stands for the missing argument (None)
commit(c, lineno) ==
    LET line == Format(c.line)
    IN  [c EXCEPT
            !.buff = IF line # <<>> THEN Append(@, line) ELSE @,
            !.line = IF lineno # 0 THEN Line(lineno) ELSE NoLine]

-----------------------------------------------------------------------------
(* The shape predicates of call expressions. *)

isNamedFuncCall(ast) ==
    IF Len(ast) < 3 THEN FALSE
    ELSE /\ At(At(ast, 1), 0) = "atom"
         /\ At(At(At(ast, 1), 1), 0) = "NAME"
         /\ At(At(ast, 2), 0) = "trailer"
         /\ At(At(At(ast, 2), 1), 0) = "LPAR"
         /\ At(AtEnd(At(ast, 2), 1), 0) = "RPAR"

isTrailorFuncCall(ast) ==
    IF Len(ast) < 4 THEN FALSE
    ELSE /\ At(AtEnd(ast, 2), 0) = "trailer"
         /\ At(At(AtEnd(ast, 2), 1), 0) = "DOT"
         /\ At(At(AtEnd(ast, 2), 2), 0) = "NAME"
         /\ At(AtEnd(ast, 1), 0) = "trailer"
         /\ At(At(AtEnd(ast, 1), 1), 0) = "LPAR"
         /\ At(AtEnd(AtEnd(ast, 1), 1), 0) = "RPAR"

-----------------------------------------------------------------------------
(* processNonTerminal *)

\* global_stmt: the names at the even indices from 2 on get Mark.GLOBAL
RECURSIVE GlobalStmt(_, _, _)
GlobalStmt(c, ast, i) ==
    IF i >= Len(ast) \/ c.failed THEN c
    ELSE IF i % 2 = 0
    THEN IF At(At(ast, i), 0) = "NAME"
         THEN GlobalStmt(setMark(c, At(ast, i), GLOBAL), ast, i + 1)
         ELSE Fail(c)
    ELSE GlobalStmt(c, ast, i + 1)

\* funcdef: whether this definition is taken as an outermost one
FuncDefIsOuter(c) == c.func_def_lvl = -1

\* funcdef
FuncDef(c, ast) ==
    IF FuncDefIsOuter(c)
    THEN LET idx == IF At(At(ast, 1), 0) = "decorators" THEN 2 ELSE 1
         IN  IF At(At(ast, idx), 0) = "NAME" /\ At(At(ast, idx), 1) = <<"def">>
             THEN setMark([c EXCEPT !.func_def_lvl = c.indent_lvl],
                          At(ast, idx + 1), FUNC_DEF)
             ELSE Fail([c EXCEPT !.func_def_lvl = c.indent_lvl])
    ELSE c

\* dotted_name in an import, were the dots counted with the names
DottedCountWithDots(ast) == Len(ast) - 1

\* dotted_name in an import: the number of names of the sequence
DottedCount(ast) == Len(ast) \div 2

\* dotted_name
DottedName(c, ast) ==
    IF c.import_stmt
    THEN [c EXCEPT !.dotted_cnt = DottedCount(ast)]
    ELSE IF c.decorator
    THEN setMark(c, AtEnd(ast, 1), FUNC_CALL)
    ELSE c

\* expr_stmt: the assertion that no assignment is open
AssignIdle(c) == c.mark = NoMark /\ c.equal_cnt = 0 /\ c.assigned_cnt = 0

\* expr_stmt: the loop that counts the EQUAL children from index 3 on;
\* the result is -1 when a child is neither EQUAL nor a testlist
RECURSIVE CountEquals(_, _, _)
CountEquals(ast, i, n) ==
    IF i >= Len(ast) THEN n
    ELSE IF At(At(ast, i), 0) = "EQUAL" THEN CountEquals(ast, i + 1, n + 1)
    ELSE IF At(At(ast, i), 0) = "testlist" THEN CountEquals(ast, i + 1, n)
    ELSE -1

\* expr_stmt
ExprStmt(c, ast) ==
    IF Len(ast) >= 4
    THEN IF /\ At(At(ast, 1), 0) = "testlist"
            /\ At(At(ast, 2), 0) = "augassign"
            /\ At(At(ast, 3), 0) = "testlist"
         THEN IF AssignIdle(c)
              THEN [c EXCEPT !.mark = ASSIGN, !.equal_cnt = 1, !.assigned_cnt = 1]
              ELSE Fail(c)
         ELSE IF At(At(ast, 1), 0) = "testlist" /\ At(At(ast, 2), 0) = "EQUAL"
         THEN IF AssignIdle(c)
              THEN LET n == CountEquals(ast, 3, 1)
                   IN  IF n = -1
                       THEN Fail([c EXCEPT !.mark = ASSIGN])
                       ELSE [c EXCEPT !.mark = ASSIGN, !.equal_cnt = n,
                                      !.assigned_cnt = n]
              ELSE Fail(c)
         ELSE c
    ELSE c

\* classdef
ClassDef(c, ast) ==
    IF At(At(ast, 1), 0) = "NAME" /\ At(At(ast, 1), 1) = <<"class">>
    THEN setMark(c, At(ast, 2), CLASS)
    ELSE Fail(c)

\* power: the simple call and the member call are looked for one after
\* the other
Power(c, ast) ==
    LET c1 == IF isNamedFuncCall(ast)
              THEN setMark(c, At(At(ast, 1), 1), FUNC_CALL)
              ELSE c
    IN  IF c1.failed THEN c1
        ELSE IF isTrailorFuncCall(ast)
        THEN setMark(c1, At(AtEnd(ast, 2), 2), FUNC_CALL)
        ELSE c1

processNonTerminal(c, ast) ==
    LET kind == At(ast, 0)
        c1 == IF kind = "global_stmt" THEN GlobalStmt(c, ast, 2)
              ELSE IF kind = "funcdef" THEN FuncDef(c, ast)
              ELSE c
    IN  IF c1.failed THEN c1
        ELSE IF kind = "decorator" THEN [c1 EXCEPT !.decorator = TRUE]
        ELSE IF kind = "import_stmt" THEN [c1 EXCEPT !.import_stmt = TRUE]
        ELSE IF c1.import_stmt /\ kind = "dotted_as_names"
        THEN [c1 EXCEPT !.import_cnt = Len(ast) \div 2]
        ELSE IF kind = "dotted_name" THEN DottedName(c1, ast)
        ELSE IF kind = "expr_stmt" THEN ExprStmt(c1, ast)
        ELSE IF kind = "classdef" THEN ClassDef(c1, ast)
        ELSE IF kind = "power" THEN Power(c1, ast)
        ELSE c1

-----------------------------------------------------------------------------
(* processTerminal *)

\* ctx.line += NonSymbol(text)
AddNonSymbol(c, text) ==
    IF NonSymbolOk(text)
    THEN [c EXCEPT !.line = LineAdd(@, NonSymbol(text))]
    ELSE Fail(c)

\* ctx.line += Symbol(name, mark)
AddSymbol(c, name, mark) ==
    IF SymbolOk(name, mark) /\ LineAddOk(c.line, Symbol(name, mark))
    THEN [c EXCEPT !.line = LineAdd(@, Symbol(name, mark))]
    ELSE Fail(c)

\* DEDENT, were a function end marked at every dedent
DedentAlwaysEnds(c) ==
    AddSymbol([c EXCEPT !.indent_lvl = @ - 1, !.func_def_lvl = -1], <<>>, FUNC_END)

\* DEDENT
Dedent(c) ==
    LET c1 == [c EXCEPT !.indent_lvl = @ - 1]
    IN  IF c1.indent_lvl = c1.func_def_lvl
        THEN AddSymbol([c1 EXCEPT !.func_def_lvl = -1], <<>>, FUNC_END)
        ELSE c1

\* whether a token on another line than the line in progress commits it
LineAdvances(c, ast) == At(ast, 2) # c.line.lineno /\ At(ast, 0) # "STRING"

\* ast[1].replace("\n", "\\n")
RECURSIVE EscapeNewlines(_)
EscapeNewlines(text) ==
    IF text = <<>> THEN <<>>
    ELSE (IF Head(text) = "\n" THEN <<"\\", "n">> ELSE <<Head(text)>>)
            \o EscapeNewlines(Tail(text))

\* EQUAL
Equal(c, ast) ==
    LET c1 == AddNonSymbol(c, At(ast, 1))
    IN  IF c1.failed THEN c1
        ELSE IF c1.mark = ASSIGN /\ c1.equal_cnt >= 1
        THEN LET c2 == [c1 EXCEPT !.equal_cnt = @ - 1]
             IN  IF c2.equal_cnt = 0
                 THEN IF c2.assigned_cnt = 0
                      THEN [c2 EXCEPT !.mark = NoMark]
                      ELSE Fail(c2)
                 ELSE c2
        ELSE c1

\* the augmented assignment operators, were the count of = left as it is
AugAssignKeepsCount(c, ast) ==
    IF c.mark = ASSIGN /\ c.equal_cnt = 1 /\ c.assigned_cnt = 0
    THEN LET c1 == AddNonSymbol(c, At(ast, 1))
         IN  IF c1.failed THEN c1 ELSE [c1 EXCEPT !.mark = NoMark]
    ELSE Fail(c)

\* PLUSEQUAL and the other augmented assignment operators
AugAssign(c, ast) ==
    IF c.mark = ASSIGN /\ c.equal_cnt = 1 /\ c.assigned_cnt = 0
    THEN LET c1 == AddNonSymbol(c, At(ast, 1))
         IN  IF c1.failed THEN c1
             ELSE [c1 EXCEPT !.equal_cnt = 0, !.mark = NoMark]
    ELSE Fail(c)

\* COMMA, were the assigned count left as it is
CommaNoBump(c, ast) == AddNonSymbol(c, At(ast, 1))

\* COMMA
Comma(c, ast) ==
    LET c1 == AddNonSymbol(c, At(ast, 1))
    IN  IF c1.failed THEN c1
        ELSE IF c1.mark = ASSIGN
        THEN IF c1.equal_cnt > 0 /\ c1.assigned_cnt + 1 = c1.equal_cnt
             THEN [c1 EXCEPT !.assigned_cnt = @ + 1]
             ELSE Fail(c1)
        ELSE c1

\* NAME, assignment branch: whether the name takes the assign mark
AssignTakes(c) == c.equal_cnt = c.assigned_cnt

\* NAME
Name(c, ast) ==
    IF c.dotted_cnt > 0
    THEN LET c1 == AddSymbol(c, At(ast, 1), INCLUDE)
         IN  IF c1.failed THEN c1 ELSE [c1 EXCEPT !.dotted_cnt = @ - 1]
    ELSE IF At(ast, 1) \in kwlist
    THEN AddNonSymbol(c, At(ast, 1))
    ELSE IF InMarks(c, ast)
    THEN AddSymbol(delMark(c, ast), At(ast, 1), getMark(c, ast))
    ELSE IF c.mark # NoMark
    THEN IF c.mark = ASSIGN
         THEN IF AssignTakes(c)
              THEN AddSymbol([c EXCEPT !.assigned_cnt = @ - 1], At(ast, 1), c.mark)
              ELSE AddSymbol(c, At(ast, 1), NoMark)
         ELSE IF c.mark = INCLUDE
         THEN AddSymbol(c, At(ast, 1), c.mark)
         ELSE AddSymbol([c EXCEPT !.mark = NoMark], At(ast, 1), c.mark)
    ELSE AddSymbol(c, At(ast, 1), NoMark)

\* DOT
Dot(c, ast) ==
    IF c.dotted_cnt > 0
    THEN AddSymbol(c, At(ast, 1), INCLUDE)
    ELSE AddNonSymbol(c, At(ast, 1))

processTerminal(c, ast) ==
    LET kind == At(ast, 0)
    IN  IF kind = "DEDENT" THEN Dedent(c)
        ELSE LET c1 == IF LineAdvances(c, ast) THEN commit(c, At(ast, 2)) ELSE c
             IN  IF kind = "NEWLINE" THEN c1
                 ELSE IF kind = "INDENT" THEN [c1 EXCEPT !.indent_lvl = @ + 1]
                 ELSE IF kind = "STRING"
                 THEN AddNonSymbol(c1, EscapeNewlines(At(ast, 1)))
                 ELSE IF kind = "EQUAL" THEN Equal(c1, ast)
                 ELSE IF kind \in AugAssignTokens THEN AugAssign(c1, ast)
                 ELSE IF kind = "COMMA" THEN Comma(c1, ast)
                 ELSE IF kind = "NAME" THEN Name(c1, ast)
                 ELSE IF kind = "DOT" THEN Dot(c1, ast)
                 ELSE IF ISEOF(kind) THEN commit(c1, 0)
                 ELSE AddNonSymbol(c1, At(ast, 1))

processAst(c, ast) ==
    IF ISNONTERMINAL(At(ast, 0))
    THEN processNonTerminal(c, ast)
    ELSE processTerminal(c, ast)

-----------------------------------------------------------------------------
(* walkAst: one iteration of its loop pops a node, dispatches it and       *)
(* pushes its children, the last child first.  The top of the stack is the *)
(* last element, as in the Python list.                                    *)

\* the children of a node, were they pushed from the first to the last
PushChildrenForward(ast, i, indent) ==
    IF i < 1 \/ ~ISNONTERMINAL(At(ast, 0)) THEN <<>>
    ELSE [k \in 1..i |-> <<At(ast, k), indent>>]

\* the children of a node that are tuples, from the last to the first,
\* each with the indent of the loop
RECURSIVE PushChildren(_, _, _)
PushChildren(ast, i, indent) ==
    IF i < 1 \/ ~ISNONTERMINAL(At(ast, 0)) THEN <<>>
    ELSE <<<<At(ast, i), indent>>>> \o PushChildren(ast, i - 1, indent)

walkStack(stk) ==
    LET ast == LastOf(stk)[1]
        indent == LastOf(stk)[2]
    IN  SubSeq(stk, 1, Len(stk) - 1) \o PushChildren(ast, Len(ast) - 1, indent + 2)

walkCtx(c, stk) == processAst(c, LastOf(stk)[1])

\* the number of iterations the loop of walkAst makes for a node: one for
\* the node and those of its children from the i-th on
RECURSIVE Iterations(_, _)
Iterations(ast, i) ==
    IF ~ISNONTERMINAL(At(ast, 0)) THEN 1
    ELSE IF i > Len(ast) - 1 THEN 1
    ELSE Iterations(At(ast, i), 1) + Iterations(ast, i + 1)

\* one iteration of the loop of walkAst; an AssertionError ends the loop
walkStep(s) ==
    IF s.stack = <<>> \/ s.ctx.failed THEN s
    ELSE [ctx |-> walkCtx(s.ctx, s.stack), stack |-> walkStack(s.stack)]

\* the value of the one element of a set
TheOne(S) == CHOOSE x \in S : TRUE

\* n iterations of the loop of walkAst, the first half and then the rest;
\* the loop is over once the stack is empty or an assertion failed
RECURSIVE walkSteps(_, _)
walkSteps(s, n) ==
    IF n = 0 THEN s
    ELSE IF n = 1 THEN walkStep(s)
    ELSE TheOne({IF half.stack = <<>> \/ half.ctx.failed THEN half
                 ELSE walkSteps(half, n - (n \div 2)) :
                        half \in {walkSteps(s, n \div 2)}})

\* walkAst(ctx, ast), run to its end or to the first AssertionError: the
\* context it leaves
walkAst(c, ast) ==
    TheOne({walkSteps(s, n).ctx :
                s \in {[ctx |-> c, stack |-> <<<<ast, 0>>>>]},
                n \in {Iterations(ast, 1)}})
-----------------------------------------------------------------------------
(* The per-file driver: parseSource, parseFile, writeIndex.                *)
(* The content of a file is a record: kind "empty" (no text), "bad" (text  *)
(* that parser.suite rejects with SyntaxError) or "ok" (text that parses   *)
(* to the statements stmts).                                               *)

NoThread == -1
NoException == "none"

\* "\n%s%s\n\n" % (Mark(Mark.FILE), relpath)
FileMark(relpath) == <<"\n">> \o MarkFormat(FILE) \o <<relpath, "\n", "\n">>

\* "\n%s" % Mark(Mark.FILE)
LastFileMark == <<"\n">> \o MarkFormat(FILE)

\* the records of a file, were they put before what the buffer holds
ExtendFront(indexbuff, buff) == buff \o indexbuff

\* indexbuff.extend(ctx.buff)
Extend(indexbuff, buff) == indexbuff \o buff

\* parseSource(sourcecode, indexbuff, indexbuff_len): the buffer and its
\* length when it returns, or the exception it raises
parseSource(content, tree, indexbuff, indexbuff_len) ==
    IF content.kind = "empty"
    THEN [indexbuff |-> indexbuff, indexbuff_len |-> indexbuff_len,
          exc |-> NoException]
    ELSE IF content.kind = "bad"
    THEN [indexbuff |-> indexbuff, indexbuff_len |-> indexbuff_len,
          exc |-> "SyntaxError"]
    ELSE TheOne({IF c.failed
                 THEN [indexbuff |-> indexbuff, indexbuff_len |-> indexbuff_len,
                       exc |-> "AssertionError"]
                 ELSE [indexbuff |-> Extend(indexbuff, c.buff),
                       indexbuff_len |-> indexbuff_len + Len(c.buff),
                       exc |-> NoException] : c \in {walkAst(Context, tree)}})

\* parseFile before it parses, were the path not put on the list of names
parseFileMarkOnly(relpath, b) ==
    [indexbuff |-> Append(b.indexbuff, FileMark(relpath)),
     indexbuff_len |-> b.indexbuff_len + 1,
     fnamesbuff |-> b.fnamesbuff]

\* parseFile, what it does before it parses: the path and the file mark
\* are appended
parseFileMark(relpath, b) ==
    [indexbuff |-> Append(b.indexbuff, FileMark(relpath)),
     indexbuff_len |-> b.indexbuff_len + 1,
     fnamesbuff |-> Append(b.fnamesbuff, relpath)]

\* parseFile(basepath, relpath, indexbuff, indexbuff_len, fnamesbuff), as
\* its caller sees it: b holds the three buffers of the caller; the result
\* holds them as parseFile leaves them, and the exception it raises if any
\* (the caller assigns indexbuff_len only when parseFile returns)
parseFile(relpath, content, tree, b) ==
    TheOne({TheOne({[indexbuff |-> r.indexbuff,
                     indexbuff_len |-> IF r.exc = NoException THEN r.indexbuff_len
                                       ELSE b.indexbuff_len,
                     fnamesbuff |-> m.fnamesbuff,
                     exc |-> r.exc] :
                    r \in {IF content.kind # "empty"
                           THEN parseSource(content, tree, m.indexbuff,
                                            m.indexbuff_len)
                           ELSE [indexbuff |-> m.indexbuff,
                                 indexbuff_len |-> m.indexbuff_len,
                                 exc |-> NoException]}}) :
            m \in {parseFileMark(relpath, b)}})

\* len(text): the sum of the lengths of its pieces, by halves
RECURSIVE TextLen(_)
TextLen(text) ==
    IF text = <<>> THEN 0
    ELSE IF Len(text) = 1
    THEN (IF text[1] = FUNC_CALL THEN 1 ELSE Len(text[1]))
    ELSE TheOne({TextLen(front) + TextLen(back) :
                    front \in {SubSeq(text, 1, Len(text) \div 2)},
                    back \in {SubSeq(text, Len(text) \div 2 + 1, Len(text))}})

\* ''.join(buff), by halves
RECURSIVE JoinAll(_)
JoinAll(buff) ==
    IF buff = <<>> THEN <<>>
    ELSE IF Len(buff) = 1 THEN buff[1]
    ELSE TheOne({JoinAll(front) \o JoinAll(back) :
                    front \in {SubSeq(buff, 1, Len(buff) \div 2)},
                    back \in {SubSeq(buff, Len(buff) \div 2 + 1, Len(buff))}})

basepath == "/src"

NotWritten == [written |-> FALSE, length |-> 0, index |-> <<>>, count |-> 0,
               fnames_len |-> 0, fnames |-> <<>>]

\* writeIndex(basepath, indexfn, indexbuff, fnamesbuff): the header with
\* the length, the index, and the trailer with the file count, the length
\* of the path list and the path list
writeIndex(indexbuff, fnamesbuff) ==
    TheOne({[written |-> TRUE,
             length |-> Len(basepath) + 25 + TextLen(index),
             index |-> index,
             count |-> Len(fnamesbuff),
             fnames_len |-> TextLen(fnames),
             fnames |-> fnames] :
            index \in {JoinAll(indexbuff)},
            fnames \in {JoinLines([i \in 1..Len(fnamesbuff) |-> <<fnamesbuff[i]>>])
                            \o <<"\n">>}})

-----------------------------------------------------------------------------
(* Source files.  A file is a sequence of top-level statements, each one   *)
(* of the statements below; StmtTree builds the parse tree the parser      *)
(* returns for the statement when it starts on line l.                     *)

Tok(kind, text, l) == <<kind, <<text>>, l>>
NAME(text, l) == Tok("NAME", text, l)
NEWLINE(l) == <<"NEWLINE", <<>>, l>>
INDENT(l) == <<"INDENT", <<>>, l>>
DEDENT(l) == <<"DEDENT", <<>>, l>>
ENDMARKER(l) == <<"ENDMARKER", <<>>, l>>

\* an expression that is one atom, with the trailers that follow it
Expr(atomTok, trailers) == <<"test", <<"power", <<"atom", atomTok>>>> \o trailers>>
NameExpr(text, l) == Expr(NAME(text, l), <<>>)
NumExpr(text, l) == Expr(Tok("NUMBER", text, l), <<>>)
CallTrailer(l) == <<"trailer", Tok("LPAR", "(", l), Tok("RPAR", ")", l)>>
DotTrailer(text, l) == <<"trailer", Tok("DOT", ".", l), NAME(text, l)>>

SimpleStmt(small, l) == <<"simple_stmt", <<"small_stmt", small>>, NEWLINE(l)>>
Simple(small, l) == <<"stmt", SimpleStmt(small, l)>>
Compound(node) == <<"stmt", <<"compound_stmt", node>>>>

PassStmt(l) == <<"pass_stmt", NAME("pass", l)>>

\* suite: NEWLINE INDENT stmt+ DEDENT, the header on line l and the body
\* ending on line last
Block(l, stmts, last) ==
    <<"suite", NEWLINE(l), INDENT(l + 1)>> \o stmts \o <<DEDENT(last + 1)>>

\* def name(): with the given suite
FuncDefNode(name, l, suite) ==
    <<"funcdef", NAME("def", l), NAME(name, l),
      <<"parameters", Tok("LPAR", "(", l), Tok("RPAR", ")", l)>>,
      Tok("COLON", ":", l), suite>>

\* def name(): pass
DefOneLine(name, l) == FuncDefNode(name, l, <<"suite", SimpleStmt(PassStmt(l), l)>>)

\* @dec.orate, a decorator line
DecoratorsNode(l) ==
    <<"decorators",
      <<"decorator", Tok("AT", "@", l),
        <<"dotted_name", NAME("dec", l), Tok("DOT", ".", l), NAME("orate", l)>>,
        NEWLINE(l)>>>>

\* an expression that is a number inside a subscript
Subscript(text, l) == <<"subscript", NumExpr(text, l)>>

\* if cond: with the given suite
IfNode(cond, l, suite) ==
    <<"if_stmt", NAME("if", l), NameExpr(cond, l), Tok("COLON", ":", l), suite>>

\* import followed by one dotted name
ImportNode(dotted, l) ==
    <<"import_stmt",
      <<"import_name", NAME("import", l),
        <<"dotted_as_names", <<"dotted_as_name", dotted>>>>>>>>

\* target = target = ... = value, one name per target
RECURSIVE AssignTargets(_, _)
AssignTargets(names, l) ==
    IF names = <<>> THEN <<>>
    ELSE <<<<"testlist", NameExpr(Head(names), l)>>, Tok("EQUAL", "=", l)>>
            \o AssignTargets(Tail(names), l)

AssignNode(names, l) ==
    <<"expr_stmt">> \o AssignTargets(names, l) \o <<<<"testlist", NumExpr("1", l)>>>>

Stmts ==
    {"pass",        \* pass
     "expr",        \* x
     "assign",      \* a = 1
     "chain",       \* a = b = 1
     "tuple",       \* a, b = 1, 2
     "tuple1",      \* a, = x
     "aug",         \* a += 1
     "strstmt",     \* 'doc'
     "strml",       \* s = '''a
                    \* b'''
     "import1",     \* import os
     "import2",     \* import os.path
     "importas",    \* import os.path as p
     "call",        \* f()
     "mcall",       \* x.y()
     "mcallsame",   \* x.x()
     "def1",        \* def g(): pass
     "defblk",      \* def f():
                    \*     pass
     "defnest",     \* def outer():
                    \*     def inner(): pass
     "callboth",    \* f(a).g()
     "callsame",    \* f().f()
     "sub3",        \* a[1, 2, 3] = v
     "deco",        \* @dec.orate
                    \* def h(): pass      (decorated: decorators funcdef)
     "deco25",      \* @dec.orate
                    \* def k(): pass      (funcdef: decorators def ...)
     "ifblk",       \* if x:
                    \*     pass
     "ifdef1",      \* if x:
                    \*     def a(): pass
     "defifdef"}    \* def b():
                    \*     if y:
                    \*         pass
                    \*     def c(): pass

\* the number of source lines of a statement
StmtLines(s) ==
    IF s \in {"defblk", "defnest", "ifdef1", "deco", "deco25", "strml",
             "ifblk"} THEN 2
    ELSE IF s = "defifdef" THEN 4
    ELSE 1

StmtTree(s, l) ==
    CASE s = "pass" -> Simple(PassStmt(l), l)
      [] s = "expr" -> Simple(<<"expr_stmt", <<"testlist", NameExpr("x", l)>>>>, l)
      [] s = "assign" -> Simple(AssignNode(<<"a">>, l), l)
      [] s = "chain" -> Simple(AssignNode(<<"a", "b">>, l), l)
      [] s = "tuple" ->
            Simple(<<"expr_stmt",
                     <<"testlist", NameExpr("a", l), Tok("COMMA", ",", l),
                                   NameExpr("b", l)>>,
                     Tok("EQUAL", "=", l),
                     <<"testlist", NumExpr("1", l), Tok("COMMA", ",", l),
                                   NumExpr("2", l)>>>>, l)
      [] s = "tuple1" ->
            Simple(<<"expr_stmt",
                     <<"testlist", NameExpr("a", l), Tok("COMMA", ",", l)>>,
                     Tok("EQUAL", "=", l),
                     <<"testlist", NameExpr("x", l)>>>>, l)
      [] s = "aug" ->
            Simple(<<"expr_stmt",
                     <<"testlist", NameExpr("a", l)>>,
                     <<"augassign", Tok("PLUSEQUAL", "+=", l)>>,
                     <<"testlist", NumExpr("1", l)>>>>, l)
      [] s = "strstmt" ->
            Simple(<<"expr_stmt",
                     <<"testlist", Expr(Tok("STRING", "'doc'", l), <<>>)>>>>, l)
      [] s = "strml" ->
            \* the parser gives a token the number of the line it ends on
            <<"stmt",
              <<"simple_stmt",
                <<"small_stmt",
                  <<"expr_stmt",
                    <<"testlist", NameExpr("s", l)>>,
                    Tok("EQUAL", "=", l),
                    <<"testlist",
                      Expr(<<"STRING", <<"'''a", "\n", "b'''">>, l + 1>>, <<>>)>>>>>>,
                NEWLINE(l + 1)>>>>
      [] s = "import1" -> Simple(ImportNode(<<"dotted_name", NAME("os", l)>>, l), l)
      [] s = "import2" ->
            Simple(ImportNode(<<"dotted_name", NAME("os", l), Tok("DOT", ".", l),
                                NAME("path", l)>>, l), l)
      [] s = "importas" ->
            Simple(<<"import_stmt",
                     <<"import_name", NAME("import", l),
                       <<"dotted_as_names",
                         <<"dotted_as_name",
                           <<"dotted_name", NAME("os", l), Tok("DOT", ".", l),
                                            NAME("path", l)>>,
                           NAME("as", l), NAME("p", l)>>>>>>>>, l)
      [] s = "call" ->
            Simple(<<"expr_stmt",
                     <<"testlist", Expr(NAME("f", l), <<CallTrailer(l)>>)>>>>, l)
      [] s = "mcall" ->
            Simple(<<"expr_stmt",
                     <<"testlist", Expr(NAME("x", l),
                                        <<DotTrailer("y", l), CallTrailer(l)>>)>>>>, l)
      [] s = "mcallsame" ->
            Simple(<<"expr_stmt",
                     <<"testlist", Expr(NAME("x", l),
                                        <<DotTrailer("x", l), CallTrailer(l)>>)>>>>, l)
      [] s = "callboth" ->
            Simple(<<"expr_stmt",
                     <<"testlist",
                       Expr(NAME("f", l),
                            <<<<"trailer", Tok("LPAR", "(", l),
                                <<"arglist", <<"argument", NameExpr("a", l)>>>>,
                                Tok("RPAR", ")", l)>>,
                              DotTrailer("g", l), CallTrailer(l)>>)>>>>, l)
      [] s = "callsame" ->
            Simple(<<"expr_stmt",
                     <<"testlist",
                       Expr(NAME("f", l),
                            <<CallTrailer(l), DotTrailer("f", l),
                              CallTrailer(l)>>)>>>>, l)
      [] s = "sub3" ->
            Simple(<<"expr_stmt",
                     <<"testlist",
                       Expr(NAME("a", l),
                            <<<<"trailer", Tok("LSQB", "[", l),
                                <<"subscriptlist",
                                  Subscript("1", l), Tok("COMMA", ",", l),
                                  Subscript("2", l), Tok("COMMA", ",", l),
                                  Subscript("3", l)>>,
                                Tok("RSQB", "]", l)>>>>)>>,
                     Tok("EQUAL", "=", l),
                     <<"testlist", NameExpr("v", l)>>>>, l)
      [] s = "deco" ->
            Compound(<<"decorated", DecoratorsNode(l), DefOneLine("h", l + 1)>>)
      [] s = "deco25" ->
            Compound(<<"funcdef", DecoratorsNode(l), NAME("def", l + 1),
                       NAME("k", l + 1),
                       <<"parameters", Tok("LPAR", "(", l + 1),
                                       Tok("RPAR", ")", l + 1)>>,
                       Tok("COLON", ":", l + 1),
                       <<"suite", SimpleStmt(PassStmt(l + 1), l + 1)>>>>)
      [] s = "def1" -> Compound(DefOneLine("g", l))
      [] s = "defblk" ->
            Compound(FuncDefNode("f", l,
                Block(l, <<Simple(PassStmt(l + 1), l + 1)>>, l + 1)))
      [] s = "defnest" ->
            Compound(FuncDefNode("outer", l,
                Block(l, <<Compound(DefOneLine("inner", l + 1))>>, l + 1)))
      [] s = "ifdef1" ->
            Compound(IfNode("x", l,
                Block(l, <<Compound(DefOneLine("a", l + 1))>>, l + 1)))
      [] s = "ifblk" ->
            Compound(IfNode("x", l,
                Block(l, <<Simple(PassStmt(l + 1), l + 1)>>, l + 1)))
      [] s = "defifdef" ->
            Compound(FuncDefNode("b", l,
                Block(l,
                      <<Compound(IfNode("y", l + 1,
                            Block(l + 1, <<Simple(PassStmt(l + 2), l + 2)>>, l + 2))),
                        Compound(DefOneLine("c", l + 3))>>,
                      l + 3)))

\* the line on which statement k of a file starts
RECURSIVE StmtLine(_, _)
StmtLine(file, k) ==
    IF k = 1 THEN 1 ELSE StmtLine(file, k - 1) + StmtLines(file[k - 1])

\* the number of lines of a file
FileLines(file) == StmtLine(file, Len(file) + 1) - 1

\* file_input: the statements, then the NEWLINE and the ENDMARKER of the
\* end of the input
FileTree(file) ==
    <<"file_input">>
        \o [k \in 1..Len(file) |-> StmtTree(file[k], StmtLine(file, k))]
        \o <<NEWLINE(FileLines(file) + 1), ENDMARKER(FileLines(file) + 1)>>

\* the files of at most n statements
RECURSIVE FilesUpTo(_)
FilesUpTo(n) ==
    IF n = 0 THEN {<<>>}
    ELSE LET shorter == FilesUpTo(n - 1)
         IN  shorter \cup {Append(f, s) : f \in shorter, s \in Stmts}

-----------------------------------------------------------------------------
(* The translator: walkAst over the tree of one file. *)

Done == stack = <<>> /\ ~ctx.failed

\* the variables of the line model and of the run while they are not used
LineIdle == ln = Line(1) /\ lnCount = 0 /\ lnErr = FALSE
RunIdle ==
    /\ fs = <<>> /\ threadCount = 1 /\ gen = <<>> /\ lock = NoThread
    /\ th = <<>> /\ indexBuffs = <<>> /\ fnamesBuffs = <<>>
    /\ out = NotWritten
TransIdle == src = <<>> /\ stack = <<>> /\ ctx = Context

TInit ==
    /\ src \in FilesUpTo(MaxStmts)
    /\ stack = <<<<FileTree(src), 0>>>>
    /\ ctx = Context
    /\ LineIdle /\ RunIdle

\* one iteration of the loop of walkAst, the node popped a non-terminal
WalkNonTerminal ==
    /\ stack # <<>> /\ ~ctx.failed
    /\ ISNONTERMINAL(At(LastOf(stack)[1], 0))
    /\ ctx' = walkCtx(ctx, stack)
    /\ stack' = walkStack(stack)
    /\ UNCHANGED <<src, lvars, rvars>>

\* one iteration of the loop of walkAst, the node popped a terminal
WalkTerminal ==
    /\ stack # <<>> /\ ~ctx.failed
    /\ ~ISNONTERMINAL(At(LastOf(stack)[1], 0))
    /\ ctx' = walkCtx(ctx, stack)
    /\ stack' = walkStack(stack)
    /\ UNCHANGED <<src, lvars, rvars>>

Next == WalkNonTerminal \/ WalkTerminal

Spec == TInit /\ [][Next]_vars

-----------------------------------------------------------------------------
(* The line model: one Line, built by any sequence of appends.             *)

\* Names and texts the appended spans are made of.
LineNames == {<<"a">>, <<".">>}
LineTexts == {<<"x">>, <<" ">>}
LineMarks == {NoMark, FUNC_DEF, INCLUDE}

LineSpans ==
    {Symbol(n, m) : n \in LineNames, m \in LineMarks}
        \cup {Symbol(<<>>, FUNC_END)}
        \cup {NonSymbol(t) : t \in LineTexts}

LineInit ==
    /\ ln \in {Line(n) : n \in 1..MaxLineNo}
    /\ lnCount = 0
    /\ lnErr = FALSE
    /\ TransIdle /\ RunIdle

\* line += Symbol(name, mark)
LineAddSymbol ==
    \E s \in {x \in LineSpans : x.sym} :
        /\ ~lnErr
        /\ lnCount < MaxAppends
        /\ SymbolOk(s.text, s.mark)
        /\ lnCount' = lnCount + 1
        /\ IF LineAddOk(ln, s)
           THEN ln' = LineAdd(ln, s) /\ lnErr' = FALSE
           ELSE ln' = ln /\ lnErr' = TRUE
        /\ UNCHANGED <<tvars, rvars>>

\* line += NonSymbol(text)
LineAddNonSymbol ==
    \E s \in {x \in LineSpans : ~x.sym} :
        /\ ~lnErr
        /\ lnCount < MaxAppends
        /\ NonSymbolOk(s.text)
        /\ lnCount' = lnCount + 1
        /\ ln' = LineAdd(ln, s)
        /\ lnErr' = FALSE
        /\ UNCHANGED <<tvars, rvars>>

LineNext == LineAddSymbol \/ LineAddNonSymbol

SpecLine == LineInit /\ [][LineNext]_vars

-----------------------------------------------------------------------------
(* The run: main, WorkerThread.run, work and workT.  Thread 0 is the main  *)
(* thread, threads 1..threadCount-1 are the WorkerThreads.  Each thread    *)
(* has its place in the code (pc) and the locals of work/workT.            *)

AllPaths == <<"a.py", "b.py", "c.py", "d.py">>

\* the contents a source file is drawn from
FileContents ==
    {[kind |-> "empty", stmts |-> <<>>],
     [kind |-> "bad", stmts |-> <<>>],
     [kind |-> "ok", stmts |-> <<"import1", "call">>],
     [kind |-> "ok", stmts |-> <<"tuple1">>]}

Threads == 0..(threadCount - 1)
MainThread == 0

\* the locals of work and workT when they start
Locals(pc) ==
    [pc |-> pc, fname |-> "", indexbuff |-> <<>>, indexbuff_len |-> 0,
     fnamesbuff |-> <<>>]

Buffers(t) ==
    [indexbuff |-> th[t].indexbuff, indexbuff_len |-> th[t].indexbuff_len,
     fnamesbuff |-> th[t].fnamesbuff]

RInit ==
    /\ \E n \in 0..MaxFiles :
          /\ gen = SubSeq(AllPaths, 1, n)
          /\ fs \in [{AllPaths[i] : i \in 1..n} -> FileContents]
    /\ threadCount \in 1..MaxThreads
    /\ lock = NoThread
    /\ th = [t \in Threads |->
                Locals(IF threadCount > 1 THEN "acquire" ELSE "s_next")]
    /\ indexBuffs = <<>> /\ fnamesBuffs = <<>>
    /\ out = NotWritten
    /\ LineIdle /\ TransIdle

\* what a thread holds after the try statement around parseFile, r what
\* parseFile did: an AssertionError is not caught and ends the thread
AfterParse(t, r, again) ==
    [th EXCEPT ![t].indexbuff = r.indexbuff,
               ![t].indexbuff_len = r.indexbuff_len,
               ![t].fnamesbuff = r.fnamesbuff,
               ![t].pc = IF r.exc = "AssertionError" THEN "dead" ELSE again]

\* parseFile(basepath, fname, indexbuff, indexbuff_len, fnamesbuff) as
\* thread t calls it
ParseFileBy(t) ==
    parseFile(th[t].fname, fs[th[t].fname], FileTree(fs[th[t].fname].stmts),
              Buffers(t))

\* work: for fname in gen
WorkNext ==
    /\ th[MainThread].pc = "s_next"
    /\ IF gen # <<>>
       THEN /\ th' = [th EXCEPT ![MainThread].fname = Head(gen),
                                ![MainThread].pc = "s_parse"]
            /\ gen' = Tail(gen)
       ELSE /\ th' = [th EXCEPT ![MainThread].pc = "write"]
            /\ gen' = gen
    /\ UNCHANGED <<fs, threadCount, lock, indexBuffs, fnamesBuffs, out, lvars, tvars>>

\* work: the try statement around parseFile
WorkParse ==
    /\ th[MainThread].pc = "s_parse"
    /\ \E r \in {ParseFileBy(MainThread)} : th' = AfterParse(MainThread, r, "s_next")
    /\ UNCHANGED <<fs, threadCount, gen, lock, indexBuffs, fnamesBuffs, out, lvars, tvars>>

\* workT: lock.acquire(), before the loop and at the end of its body
Acquire(t) ==
    /\ th[t].pc = "acquire"
    /\ lock = NoThread
    /\ lock' = t
    /\ th' = [th EXCEPT ![t].pc = "next"]
    /\ UNCHANGED <<fs, threadCount, gen, indexBuffs, fnamesBuffs, out, lvars, tvars>>

\* workT: for fname in gen, with the lock held
NextFile(t) ==
    /\ th[t].pc = "next"
    /\ IF gen # <<>>
       THEN /\ th' = [th EXCEPT ![t].fname = Head(gen), ![t].pc = "release"]
            /\ gen' = Tail(gen)
       ELSE /\ th' = [th EXCEPT ![t].pc = "final_release"]
            /\ gen' = gen
    /\ UNCHANGED <<fs, threadCount, lock, indexBuffs, fnamesBuffs, out, lvars, tvars>>

\* workT: lock.release() at the start of the body of the loop
Release(t) ==
    /\ th[t].pc = "release"
    /\ lock' = NoThread
    /\ th' = [th EXCEPT ![t].pc = "parse"]
    /\ UNCHANGED <<fs, threadCount, gen, indexBuffs, fnamesBuffs, out, lvars, tvars>>

\* workT: the try statement around parseFile, without the lock
Parse(t) ==
    /\ th[t].pc = "parse"
    /\ \E r \in {ParseFileBy(t)} : th' = AfterParse(t, r, "acquire")
    /\ UNCHANGED <<fs, threadCount, gen, lock, indexBuffs, fnamesBuffs, out, lvars, tvars>>

\* workT, were the lock kept after the loop
FinalReleaseKeepsLock(t) ==
    /\ th[t].pc = "final_release"
    /\ th' = [th EXCEPT ![t].pc = IF t = MainThread THEN "join" ELSE "w_acquire"]
    /\ UNCHANGED <<fs, threadCount, gen, lock, indexBuffs, fnamesBuffs, out, lvars, tvars>>

\* workT: lock.release() after the loop, and the return to the caller
FinalRelease(t) ==
    /\ th[t].pc = "final_release"
    /\ lock' = NoThread
    /\ th' = [th EXCEPT ![t].pc = IF t = MainThread THEN "join" ELSE "w_acquire"]
    /\ UNCHANGED <<fs, threadCount, gen, indexBuffs, fnamesBuffs, out, lvars, tvars>>

\* WorkerThread.run: self.lock.acquire()
WorkerAcquire(t) ==
    /\ th[t].pc = "w_acquire"
    /\ lock = NoThread
    /\ lock' = t
    /\ th' = [th EXCEPT ![t].pc = "w_append"]
    /\ UNCHANGED <<fs, threadCount, gen, indexBuffs, fnamesBuffs, out, lvars, tvars>>

\* WorkerThread.run: the two appends
WorkerAppend(t) ==
    /\ th[t].pc = "w_append"
    /\ indexBuffs' = Append(indexBuffs, th[t].indexbuff)
    /\ fnamesBuffs' = Append(fnamesBuffs, th[t].fnamesbuff)
    /\ th' = [th EXCEPT ![t].pc = "w_release"]
    /\ UNCHANGED <<fs, threadCount, gen, lock, out, lvars, tvars>>

\* WorkerThread.run: self.lock.release(), and the thread ends
WorkerRelease(t) ==
    /\ th[t].pc = "w_release"
    /\ lock' = NoThread
    /\ th' = [th EXCEPT ![t].pc = "done"]
    /\ UNCHANGED <<fs, threadCount, gen, indexBuffs, fnamesBuffs, out, lvars, tvars>>

\* a thread that has ended, whether it returned or an exception ended it
Ended(t) == th[t].pc \in {"done", "dead"}

\* main: t.join() for every worker thread
Join ==
    /\ th[MainThread].pc = "join"
    /\ \A t \in Threads \ {MainThread} : Ended(t)
    /\ th' = [th EXCEPT ![MainThread].pc = "write"]
    /\ UNCHANGED <<fs, threadCount, gen, lock, indexBuffs, fnamesBuffs, out, lvars, tvars>>

\* main, were the buffers of the workers left out
GatherMainOnly(buff, buffs) == buff

\* main: indexbuff += i for every i of indexBuffs, the same for the names
Gather(buff, buffs) == buff \o JoinAll(buffs)

\* main: the buffers are gathered, the last file mark is appended and the
\* index is written
WriteIndex ==
    /\ th[MainThread].pc = "write"
    /\ \E indexbuff \in {IF threadCount > 1
                          THEN Gather(th[MainThread].indexbuff, indexBuffs)
                          ELSE th[MainThread].indexbuff},
          fnamesbuff \in {IF threadCount > 1
                           THEN Gather(th[MainThread].fnamesbuff, fnamesBuffs)
                           ELSE th[MainThread].fnamesbuff} :
           /\ out' = writeIndex(Append(indexbuff, LastFileMark), fnamesbuff)
           /\ th' = [th EXCEPT ![MainThread].indexbuff = Append(indexbuff, LastFileMark),
                               ![MainThread].fnamesbuff = fnamesbuff,
                               ![MainThread].pc = "done"]
    /\ UNCHANGED <<fs, threadCount, gen, lock, indexBuffs, fnamesBuffs, lvars, tvars>>

RunNext ==
    \/ WorkNext
    \/ WorkParse
    \/ \E t \in Threads : Acquire(t)
    \/ \E t \in Threads : NextFile(t)
    \/ \E t \in Threads : Release(t)
    \/ \E t \in Threads : Parse(t)
    \/ \E t \in Threads : FinalRelease(t)
    \/ \E t \in Threads : WorkerAcquire(t)
    \/ \E t \in Threads : WorkerAppend(t)
    \/ \E t \in Threads : WorkerRelease(t)
    \/ Join
    \/ WriteIndex

SpecRun == RInit /\ [][RunNext]_vars

\* the run when every thread that can take a step is scheduled in the end
SpecRunFair == SpecRun /\ WF_vars(RunNext)
-----------------------------------------------------------------------------
(* Claims about the line model. *)

HasSymbolSpan(self) == \E i \in 1..Len(self.contents) : self.contents[i].sym

\* C1: for every Line reachable by appends of Symbols (any mark, func-end
\* included) and NonSymbols, render() is empty if and only if the contents
\* hold no Symbol span.
C1_RenderEmptyIffNoSymbol == (Format(ln) = <<>>) <=> ~HasSymbolSpan(ln)

\* the output lines of a Line that renders, before they are joined
FormatLines(self) == FormatRest(FormatFirst(self), self.contents, 2)

\* the place in the output lines of the i-th span: the line number takes
\* a line of its own when the first span is a Symbol
LineOfSpan(self, i) == IF self.contents[1].sym THEN i + 1 ELSE i

\* C11: in every Line reachable by successful appends no two adjacent spans
\* have the same kind, and in the rendered block the lines of the Symbol
\* spans are the even ones: Symbol and NonSymbol lines alternate.
C11_SpansAlternate ==
    /\ \A i \in 1..(Len(ln.contents) - 1) :
            ln.contents[i].sym # ln.contents[i + 1].sym
    /\ Format(ln) # <<>> =>
            /\ Len(FormatLines(ln)) = LineOfSpan(ln, Len(ln.contents))
            /\ \A i \in 1..Len(ln.contents) :
                    /\ ln.contents[i].sym <=> LineOfSpan(ln, i) % 2 = 0
                    /\ ln.contents[i].sym =>
                            FormatLines(ln)[LineOfSpan(ln, i)] = SpanFormat(ln.contents[i])

\* a Line that renders, where spans were merged and a function end marker
\* followed a Symbol
C11_Witness ==
    /\ ~lnErr /\ lnCount = MaxAppends /\ Len(ln.contents) = 3
    /\ Format(ln) # <<>>
    /\ ln.contents[1].sym /\ ln.contents[3] = Symbol(<<>>, FUNC_END)

\* whether text starts with pre
StartsWith(text, pre) == Len(text) >= Len(pre) /\ SubSeq(text, 1, Len(pre)) = pre

\* the places of a text where an empty line stands: a line break at the
\* start, or a line break that follows a line break
EmptyLines(text) ==
    {i \in 1..Len(text) : text[i] = "\n" /\ (i = 1 \/ text[i - 1] = "\n")}

\* C12: every non-empty rendered block starts with the line number in
\* decimal and ends with exactly one blank line: its only empty line is
\* the last line of the text.
C12_BlockStartAndEnd ==
    Format(ln) # <<>> =>
        /\ StartsWith(Format(ln), Decimal(ln.lineno) \o <<" ">>)
        /\ EmptyLines(Format(ln)) = {Len(Format(ln))}

\* a Line of several spans that renders, a function end marker among them
C12_Witness ==
    /\ Format(ln) # <<>> /\ Len(ln.contents) >= 3 /\ ln.lineno = MaxLineNo
    /\ \E i \in 1..Len(ln.contents) : ln.contents[i] = Symbol(<<>>, FUNC_END)

-----------------------------------------------------------------------------
(* Reading rendered records.  A record is the text Line.format returns:    *)
(* the line number, then one output line per span; the output line of a    *)
(* tagged symbol starts with a tab and the mark character.                 *)

\* the number of places at which pat occurs in text
CountSub(text, pat) ==
    Cardinality({i \in 1..(Len(text) - Len(pat) + 1) :
                    SubSeq(text, i, i + Len(pat) - 1) = pat})

\* the places of an atom in a record
Places(rec, atom) == {i \in 1..Len(rec) : rec[i] = atom}

Min(S) == CHOOSE x \in S : \A y \in S : x <= y
Max(S) == CHOOSE x \in S : \A y \in S : x >= y

\* the mark of the output line that holds place i of a record
TagAt(rec, i) ==
    LET start == Max({j \in 1..i : j = 1 \/ rec[j - 1] = "\n"})
    IN  IF rec[start] = "\t" THEN rec[start + 1] ELSE NoMark

\* every place of the atom lies on an output line of this mark
AllTagged(rec, atom, mark) == \A i \in Places(rec, atom) : TagAt(rec, i) = mark

\* the records of ctx.buff that were rendered for source line l
RecordsOfLine(l) ==
    {i \in 1..Len(ctx.buff) :
        LET d == Decimal(l) \o <<" ">>
        IN  Len(ctx.buff[i]) >= Len(d) /\ SubSeq(ctx.buff[i], 1, Len(d)) = d}

\* the statements of the file that are one of the given kinds
StmtsOf(kinds) == {k \in 1..Len(src) : src[k] \in kinds}

\* the number of tagged symbols with this mark in all records
RECURSIVE CountMark(_, _)
CountMark(buff, mark) ==
    IF buff = <<>> THEN 0
    ELSE CountSub(Head(buff), <<"\t", mark>>) + CountMark(Tail(buff), mark)

-----------------------------------------------------------------------------
(* Claims about the translator. *)

\* C2: for a file holding one top-level function definition whose body is
\* an indented block, the rendered records hold the function name tagged
\* func-def and exactly one func-end symbol.
C2_DefAndOneFuncEnd ==
    Done /\ src = <<"defblk">> =>
        /\ \E i \in RecordsOfLine(1) :
                CountSub(ctx.buff[i], <<"\t", FUNC_DEF, "f">>) = 1
        /\ CountMark(ctx.buff, FUNC_END) = 1

ImportStmts == {"import1", "import2", "importas"}
ImportDotted(s) == IF s = "import1" THEN <<"os">> ELSE <<"os", ".", "path">>

\* the number of entries on top of the stack that are NAME and DOT
\* terminals in turn, a NAME first, up to n names
RECURSIVE SegmentsOnTop(_, _)
SegmentsOnTop(stk, n) ==
    IF n = 0 \/ stk = <<>> \/ At(LastOf(stk)[1], 0) # "NAME" THEN 0
    ELSE IF n = 1 THEN 1
    ELSE IF Len(stk) >= 2 /\ At(stk[Len(stk) - 1][1], 0) = "DOT"
    THEN 1 + SegmentsOnTop(SubSeq(stk, 1, Len(stk) - 2), n - 1)
    ELSE 1

\* the same when the dot before the next segment is still on the stack
SegmentsPending(stk, n) ==
    IF stk # <<>> /\ At(LastOf(stk)[1], 0) = "DOT"
    THEN SegmentsOnTop(SubSeq(stk, 1, Len(stk) - 1), n)
    ELSE SegmentsOnTop(stk, n)

\* C7: for an import of a dotted name, the segments and the dots make one
\* symbol tagged include and no other token of the statement is tagged;
\* the dotted-segment counter counts exactly the segments still to come,
\* which are on top of the stack, so it is 0 once the last one is consumed.
C7_ImportDottedName ==
    /\ \A k \in StmtsOf(ImportStmts) :
        /\ \A i \in RecordsOfLine(StmtLine(src, k)) :
            /\ CountSub(ctx.buff[i],
                        <<"\t", INCLUDE>> \o ImportDotted(src[k]) \o <<"\n">>) = 1
            /\ CountSub(ctx.buff[i], <<"\t">>) = 1
        /\ Done => Cardinality(RecordsOfLine(StmtLine(src, k))) = 1
    /\ ~ctx.failed => SegmentsPending(stack, ctx.dotted_cnt) = ctx.dotted_cnt

C7_Witness ==
    /\ Done
    /\ \E k \in StmtsOf({"importas"}) : RecordsOfLine(StmtLine(src, k)) # {}
    /\ \E k \in StmtsOf({"import1"}) : RecordsOfLine(StmtLine(src, k)) # {}

\* C8: for a member call x.y(...), the name before the parentheses is
\* tagged func-call and the receiver name is untagged.
MemberCalls == {"mcall", "mcallsame"}
Receiver(s) == "x"
Callee(s) == IF s = "mcall" THEN "y" ELSE "x"

C8_MemberCallTagsCallee ==
    \A k \in StmtsOf(MemberCalls) : \A i \in RecordsOfLine(StmtLine(src, k)) :
        LET rec == ctx.buff[i]
        IN  /\ TagAt(rec, Min(Places(rec, Receiver(src[k])))) = NoMark
            /\ TagAt(rec, Max(Places(rec, Callee(src[k])))) = FUNC_CALL

\* C9: a function definition inside the open body of another function
\* definition never gets the func-def tag: neither pre-assigned in the memo
\* nor in a record.
NestedDefNames == {"inner", "c"}

C9_NestedDefNeverTagged ==
    /\ \A p \in ctx.marks : p[2] = FUNC_DEF => At(p[1], 1)[1] \notin NestedDefNames
    /\ \A i \in 1..Len(ctx.buff) : \A n \in NestedDefNames :
            CountSub(ctx.buff[i], <<"\t", FUNC_DEF, n>>) = 0

\* C10: for t1 = ... = tk = v with every target group starting with a plain
\* name: the dispatch of the statement sets both counters to k, the first
\* name of each group is tagged assign, the = and the value are untagged,
\* and the k-th = closes the assignment (empty slot, both counters 0).
PlainAssigns == {"assign", "chain", "tuple", "tuple1"}
AssignFirstNames(s) == IF s = "chain" THEN {"a", "b"} ELSE {"a"}
AssignEquals(s) == IF s = "chain" THEN 2 ELSE 1

TopNode == LastOf(stack)[1]

C10_AssignmentOpensAndCloses ==
    /\ [][stack # <<>> /\ ~ctx.failed /\ At(TopNode, 0) = "expr_stmt"
            /\ Len(TopNode) >= 4 /\ At(At(TopNode, 2), 0) = "EQUAL"
          => /\ ctx'.equal_cnt = CountSub([j \in 1..Len(TopNode) - 1 |->
                                            At(At(TopNode, j), 0)], <<"EQUAL">>)
             /\ ctx'.assigned_cnt = ctx'.equal_cnt]_vars
    /\ [][stack # <<>> /\ ~ctx.failed /\ At(TopNode, 0) = "EQUAL"
            /\ ctx.mark = ASSIGN /\ ctx.equal_cnt = 1
          => ctx'.mark = NoMark /\ ctx'.equal_cnt = 0 /\ ctx'.assigned_cnt = 0]_vars
    /\ [](\A k \in StmtsOf(PlainAssigns) :
            \A i \in RecordsOfLine(StmtLine(src, k)) :
                /\ \A n \in AssignFirstNames(src[k]) :
                        AllTagged(ctx.buff[i], n, ASSIGN)
                /\ \A t \in {"=", "1", "2", "x"} :
                        \A j \in Places(ctx.buff[i], t) :
                            j > 1 /\ ctx.buff[i][j - 1] # "\t"
                                => TagAt(ctx.buff[i], j) = NoMark)


-----------------------------------------------------------------------------
(* Claims about the run. *)

NoBuffers == [indexbuff |-> <<>>, indexbuff_len |-> 0, fnamesbuff |-> <<>>]

\* the files whose text the parser rejects
BadFiles == {p \in DOMAIN fs : fs[p].kind = "bad"}

\* the threads that are past the start of a file and hold its path
Holds(t, p) == \E i \in 1..Len(th[t].fnamesbuff) : th[t].fnamesbuff[i] = p
HoldsMark(t, p) == \E i \in 1..Len(th[t].indexbuff) : th[t].indexbuff[i] = FileMark(p)

\* C4: when a file fails to parse, nothing of it remains in the buffers of
\* the thread that tried it once the SyntaxError is caught: neither its
\* path in the file name list nor its file mark in the index buffer.
C4_FailedFileLeavesNothing ==
    \A t \in DOMAIN th : \A p \in BadFiles : ~Holds(t, p) /\ ~HoldsMark(t, p)

\* the block of a file: what a run of one worker that translates this file
\* alone puts into its index buffer
SoloBlock(p) == parseFile(p, fs[p], FileTree(fs[p].stmts), NoBuffers).indexbuff

\* the blocks of the files of a list of paths, one after the other
RECURSIVE Blocks(_)
Blocks(names) ==
    IF names = <<>> THEN <<>> ELSE SoloBlock(Head(names)) \o Blocks(Tail(names))

\* C5: the block of records of a file, its file mark followed by its line
\* records, is the one a single worker makes of the file alone, whichever
\* thread translates it and whatever that thread translated before: every
\* thread that gets through a file adds just that block to the end of its
\* index buffer and the path to its file name list, and the index written
\* is the blocks of the files of the trailer, in the order of the trailer,
\* and the last file mark.
C5_FileBlockIndependent ==
    /\ [][\A t \in DOMAIN th :
            th[t].pc \in {"parse", "s_parse"} /\ th'[t].pc \in {"acquire", "s_next"}
                => /\ Head(SoloBlock(th[t].fname)) = FileMark(th[t].fname)
                   /\ th'[t].indexbuff = th[t].indexbuff \o SoloBlock(th[t].fname)
                   /\ th'[t].fnamesbuff = Append(th[t].fnamesbuff, th[t].fname)]_vars
    /\ [](out.written =>
            out.index = JoinAll(Blocks(th[MainThread].fnamesbuff)) \o LastFileMark)

\* a run of several threads wrote the index, a worker thread having
\* translated two files with records one after the other
C5_Witness ==
    /\ out.written /\ threadCount > 1
    /\ \E i \in 1..Len(fnamesBuffs) :
          /\ Len(fnamesBuffs[i]) >= 2
          /\ \A k \in 1..Len(fnamesBuffs[i]) : Len(SoloBlock(fnamesBuffs[i][k])) > 1

\* C6: an AssertionError raised while any thread translates any file is
\* fatal to the run: the index is never written once a thread died of one.
C6_ContractFailureStopsRun ==
    out.written => \A t \in DOMAIN th : th[t].pc # "dead"

-----------------------------------------------------------------------------
(* C13: the order of the files' blocks in the body. *)

IsPath(a) == \E i \in 1..Len(AllPaths) : AllPaths[i] = a

\* the position at which genFiles yielded the path
Discovered(p) == CHOOSE i \in 1..Len(AllPaths) : AllPaths[i] = p

\* the paths named by the file marks of the body, in body order
BodyPaths == SelectSeq(out.index, IsPath)

\* C13: the final body holds the files' blocks in discovery order, the
\* order in which genFiles yielded the paths, for any number of workers and
\* any interleaving.
C13_BodyInDiscoveryOrder ==
    out.written =>
        \A i, j \in 1..Len(BodyPaths) :
            i < j => Discovered(BodyPaths[i]) < Discovered(BodyPaths[j])

-----------------------------------------------------------------------------
(* C15: appends to a Line. *)

\* C15: Line.__add__ never fails on well-typed input: a Symbol with any
\* valid mark or a NonSymbol is appended to every reachable Line.
C15_AppendNeverFails == ~lnErr

-----------------------------------------------------------------------------
(* C14: the memo of pre-assigned marks. *)

\* the node about to be processed is a name that takes the pending mark of
\* its tuple (the memo branch of the NAME rule)
TakesPendingMark ==
    /\ stack # <<>> /\ ~ctx.failed
    /\ At(TopNode, 0) = "NAME"
    /\ ctx.dotted_cnt = 0 /\ At(TopNode, 1) \notin kwlist
    /\ InMarks(ctx, TopNode)

\* entry k of the stack is the ".name" trailer of a member call that has
\* not been walked yet: the next child of its power node is "( ... )"
WaitingCallee(k) ==
    /\ At(stack[k][1], 0) = "trailer"
    /\ At(At(stack[k][1], 1), 0) = "DOT"
    /\ At(stack[k - 1][1], 0) = "trailer"
    /\ At(At(stack[k - 1][1], 1), 0) = "LPAR"

\* C14: a mark pre-assigned with setMark reaches only the very terminal it
\* was set for: a name terminal does not take the pending mark of a member
\* call's callee while that callee, an equal tuple, still waits on the stack.
C14_MarkReachesItsNode ==
    \A k \in 2..(Len(stack) - 1) :
        WaitingCallee(k) /\ At(stack[k][1], 2) = TopNode => ~TakesPendingMark

-----------------------------------------------------------------------------
(* C16, C18: decorators. *)

DecoratorStmts == {"deco", "deco25"}

\* C16: for a decorator @dec.orate, wherever it stands in the file, only
\* the final segment is tagged func-call; the earlier segment and the dot
\* are untagged and nothing of the line is tagged include.
C16_DecoratorLastSegment ==
    \A k \in StmtsOf(DecoratorStmts) : \A i \in RecordsOfLine(StmtLine(src, k)) :
        LET rec == ctx.buff[i]
        IN  /\ AllTagged(rec, "dec", NoMark)
            /\ AllTagged(rec, ".", NoMark)
            /\ AllTagged(rec, "orate", FUNC_CALL)
            /\ CountSub(rec, <<"\t", INCLUDE>>) = 0

\* a dotted_name node waits on the stack
DottedNameWaits == \E k \in 1..Len(stack) : At(stack[k][1], 0) = "dotted_name"

\* C18: decorator mode is left when the dotted-name rule fires: the
\* inside-decorator flag is true only while the decorator's dotted name
\* still waits to be dispatched.
C18_DecoratorModeLeft == ctx.decorator => DottedNameWaits

-----------------------------------------------------------------------------
(* C17: function definitions that are not nested. *)

\* the name terminal of a funcdef node, after the decorators if it has any
FuncDefName(ast) ==
    IF At(At(ast, 1), 0) = "decorators" THEN At(ast, 3) ELSE At(ast, 2)

\* C17: the dispatch of a function definition that is not nested inside
\* another one pre-assigns func-def to its name, whatever definitions
\* precede it in the file.
C17_OuterDefPreassigned ==
    [][stack # <<>> /\ ~ctx.failed /\ At(TopNode, 0) = "funcdef"
            /\ At(FuncDefName(TopNode), 1)[1] \notin NestedDefNames
          => <<FuncDefName(TopNode), FUNC_DEF>> \in ctx'.marks]_vars

-----------------------------------------------------------------------------
(* C19: call chains of both shapes. *)

\* C19: when a power node matches the simple-call and the member-call
\* shape and neither callee has a pending mark, its dispatch does not fail
\* and both callees are pre-assigned func-call, for equal and for
\* different callee names.
C19_BothCalleesPreassigned ==
    [][stack # <<>> /\ ~ctx.failed /\ At(TopNode, 0) = "power"
            /\ isNamedFuncCall(TopNode) /\ isTrailorFuncCall(TopNode)
            /\ ~InMarks(ctx, At(At(TopNode, 1), 1))
            /\ ~InMarks(ctx, At(AtEnd(TopNode, 2), 2))
          => /\ ~ctx'.failed
             /\ <<At(At(TopNode, 1), 1), FUNC_CALL>> \in ctx'.marks
             /\ <<At(AtEnd(TopNode, 2), 2), FUNC_CALL>> \in ctx'.marks]_vars

-----------------------------------------------------------------------------
(* C20: commas. *)

\* C20: processing a comma appends it as untagged text; with an assignment
\* open it raises the count of targets still to come by exactly one, with
\* none open it leaves it; the count of = and the next-mark slot stay.
C20_CommaCountsTarget ==
    [][stack # <<>> /\ ~ctx.failed /\ At(TopNode, 0) = "COMMA"
          => /\ ~ctx'.failed
             /\ ctx'.line.contents # <<>>
             /\ ~LastOf(ctx'.line.contents).sym
             /\ LastOf(LastOf(ctx'.line.contents).text) = ","
             /\ ctx'.assigned_cnt =
                    ctx.assigned_cnt + (IF ctx.mark = ASSIGN THEN 1 ELSE 0)
             /\ ctx'.equal_cnt = ctx.equal_cnt
             /\ ctx'.mark = ctx.mark]_vars

-----------------------------------------------------------------------------
(* C21: the counters of an assignment. *)

IsAssignment(ast) ==
    /\ At(ast, 0) = "expr_stmt" /\ Len(ast) >= 4
    /\ At(At(ast, 1), 0) = "testlist"
    /\ At(At(ast, 2), 0) \in {"EQUAL", "augassign"}

\* C21: in every state that has not failed, an empty next-mark slot goes
\* with both counters at 0 and the assign mark with an expected-= count of
\* at least 1; an assignment statement about to be dispatched finds the
\* context idle.
C21_CountersFollowMark ==
    ~ctx.failed =>
        /\ ctx.mark = NoMark => ctx.equal_cnt = 0 /\ ctx.assigned_cnt = 0
        /\ ctx.mark = ASSIGN => ctx.equal_cnt >= 1
        /\ ctx.mark \in {NoMark, ASSIGN}
        /\ stack # <<>> /\ IsAssignment(TopNode) => AssignIdle(ctx)

\* a second assignment is open after the first was closed, by an augmented
\* assignment operator or by the last = of a chain
C21_Witness ==
    /\ ~ctx.failed /\ Len(src) = 2
    /\ src[1] \in {"aug", "chain"} /\ src[2] \in {"aug", "chain"}
    /\ ctx.mark = ASSIGN /\ ctx.line.lineno = 2

-----------------------------------------------------------------------------
(* C22: string literals. *)

StringStmts == {"strstmt", "strml"}

\* the first piece of the literal of a string statement
StringStart(s) == IF s = "strstmt" THEN "'doc'" ELSE "'''a"

\* C22: a string literal is recorded in the record of the source line on
\* which it starts, and a line break inside it is recorded as the two
\* characters of its escape, within that record.
C22_StringOnItsStartingLine ==
    \A i \in 1..Len(ctx.buff) :
        /\ \A s \in StringStmts :
              Places(ctx.buff[i], StringStart(s)) # {} =>
                  \E k \in StmtsOf({s}) : i \in RecordsOfLine(StmtLine(src, k))
        /\ \A j \in Places(ctx.buff[i], "'''a") :
              /\ j + 3 <= Len(ctx.buff[i])
              /\ SubSeq(ctx.buff[i], j + 1, j + 3) = <<"\\", "n", "b'''">>

-----------------------------------------------------------------------------
(* C23: the shared generator of paths. *)

NoneDead == \A t \in Threads : th[t].pc # "dead"

\* the thread is between an acquire and the release that follows it
InLockedPart(t) ==
    th[t].pc \in {"next", "release", "final_release", "w_append", "w_release"}

\* C23: with more than one thread the generator is advanced only by the
\* thread that holds the lock, one path at a time, and the path goes to
\* that thread alone; when no thread was ended by an exception the file
\* mark of every path is in the body exactly once.
C23_PathsTakenUnderLock ==
    /\ [][threadCount > 1 /\ gen' # gen
            => /\ lock \in Threads /\ lock' = lock
               /\ th[lock].pc = "next"
               /\ gen # <<>> /\ gen' = Tail(gen)
               /\ th'[lock].fname = Head(gen)
               /\ \A t \in Threads \ {lock} : th'[t] = th[t]]_vars
    /\ [](\A t \in Threads : InLockedPart(t) <=> lock = t)
    /\ [](out.written /\ NoneDead
            => \A p \in DOMAIN fs : Cardinality(Places(out.index, p)) = 1)

\* two threads, each took one of two files, and the index is written
C23_Witness ==
    /\ out.written /\ NoneDead /\ threadCount = 2
    /\ Len(fnamesBuffs) = 1 /\ Len(fnamesBuffs[1]) = 1
    /\ out.count = 2

-----------------------------------------------------------------------------
(* C24: termination of the threads. *)

AllEnded == \A t \in Threads : Ended(t)

\* thread t leaves the try statement around parseFile in this step
ParsedBy(t) == th[t].pc \in {"parse", "s_parse"} /\ th'[t].pc # th[t].pc

\* C24: under fair scheduling every thread ends and the lock is free once
\* all have ended; a thread does not hold the lock while it parses, and
\* its parse step, failed or not, leaves the other threads, the lock and
\* the shared result lists as they are.
C24_ThreadsEndLockFree ==
    /\ <>[]AllEnded
    /\ [](AllEnded => lock = NoThread)
    /\ [](\A t \in Threads : th[t].pc \in {"parse", "s_parse"} => lock # t)
    /\ [][\A t \in Threads : ParsedBy(t)
            => /\ \A u \in Threads \ {t} : th'[u] = th[u]
               /\ lock' = lock
               /\ indexBuffs' = indexBuffs /\ fnamesBuffs' = fnamesBuffs]_vars

\* two threads have ended, one of them after a file that failed to parse
C24_Witness ==
    /\ AllEnded /\ threadCount = 2 /\ lock = NoThread
    /\ \E p \in BadFiles : Holds(1, p)
    /\ Len(th[MainThread].fnamesbuff) = 2

-----------------------------------------------------------------------------
(* C25: the list of paths of the trailer and the file marks of the body. *)

\* the paths of the trailer, in the order written
TrailerPaths == SelectSeq(out.fnames, IsPath)

\* C25: after a run the paths of the trailer and the file marks of the
\* body correspond one to one and in the same order, and the file count
\* written is the number of file marks without the closing one.
C25_TrailerMatchesBody ==
    out.written =>
        /\ TrailerPaths = BodyPaths
        /\ out.count = Len(BodyPaths)
        /\ out.count = CountSub(out.index, MarkFormat(FILE)) - 1

\* two threads, a file that failed to parse, the body not in discovery order
C25_Witness ==
    /\ out.written /\ threadCount = 2 /\ BadFiles # {}
    /\ BodyPaths = <<"b.py", "a.py">>

-----------------------------------------------------------------------------
(* C26: the commits of the lines of one file. *)

\* the record starts with the number of line l
IsRecordOf(rec, l) == StartsWith(rec, Decimal(l) \o <<" ">>)

\* the source line of a record
RecordLine(rec) == CHOOSE l \in 1..(FileLines(src) + 1) : IsRecordOf(rec, l)

\* C26: every committed record is non-empty and belongs to a source line,
\* the records have strictly increasing line numbers (a line is committed
\* at most once) and are all before the line in progress; once the end of
\* the input is processed no line is in progress and no node is left to
\* change the buffer.
C26_LinesCommittedOnce ==
    /\ \A i \in 1..Len(ctx.buff) :
          /\ ctx.buff[i] # <<>>
          /\ \E l \in 1..(FileLines(src) + 1) : IsRecordOf(ctx.buff[i], l)
    /\ \A i, j \in 1..Len(ctx.buff) :
          i < j => RecordLine(ctx.buff[i]) < RecordLine(ctx.buff[j])
    /\ ctx.line # NoLine =>
          \A i \in 1..Len(ctx.buff) : RecordLine(ctx.buff[i]) < ctx.line.lineno
    /\ Done => ctx.line = NoLine
    /\ ctx.line = NoLine => stack = <<>>

\* a file is translated to its end, with records and with a line that
\* rendered empty and was not committed
C26_Witness ==
    /\ Done /\ ctx.line = NoLine
    /\ Len(ctx.buff) >= 2 /\ Len(ctx.buff) < FileLines(src)

-----------------------------------------------------------------------------
(* C27: the tracked outer function and the func-end symbols. *)

\* an outer function definition is tracked
Tracked == ctx.func_def_lvl # -1

\* this step pre-assigns func-def to a name
PreAssignsFuncDef ==
    \E p \in ctx'.marks : p[2] = FUNC_DEF /\ p \notin ctx.marks

\* this step appends a func-end symbol to the line in progress
AppendsFuncEnd ==
    /\ stack # <<>> /\ At(TopNode, 0) = "DEDENT"
    /\ ctx'.line # ctx.line

DefStmts == {"def1", "defblk", "defnest", "ifdef1", "defifdef", "deco", "deco25"}

\* the line holds a func-end symbol
HasFuncEnd(line) ==
    \E i \in 1..Len(line.contents) : line.contents[i] = Symbol(<<>>, FUNC_END)

\* C27: the nesting depth never goes below 0; a func-def is pre-assigned
\* only while no outer function is tracked and starts the tracking, a
\* func-end is appended only while one is tracked and ends the tracking,
\* and the tracking changes in no other step, so the two alternate, a
\* func-def first; a file that defines no function gets no func-end.
C27_FuncDefAndFuncEndAlternate ==
    /\ [](ctx.indent_lvl >= 0 /\ ctx.func_def_lvl >= -1)
    /\ [][PreAssignsFuncDef => ~Tracked /\ ctx'.func_def_lvl # -1]_vars
    /\ [][AppendsFuncEnd => Tracked /\ ctx'.func_def_lvl = -1]_vars
    /\ [][~ctx'.failed /\ (ctx'.func_def_lvl # -1) # Tracked
            => PreAssignsFuncDef \/ AppendsFuncEnd]_vars
    /\ [](StmtsOf(DefStmts) = {}
            => /\ ~Tracked /\ ~HasFuncEnd(ctx.line)
               /\ CountMark(ctx.buff, FUNC_END) = 0)

\* the dedent that closes the body of a tracked function has appended the
\* func-end symbol and ended the tracking
C27_Witness ==
    /\ ~ctx.failed /\ ctx.line # NoLine /\ HasFuncEnd(ctx.line)
    /\ ~Tracked /\ ctx.indent_lvl = 0
    /\ \E i \in 1..Len(ctx.buff) : CountSub(ctx.buff[i], <<"\t", FUNC_DEF>>) = 1

-----------------------------------------------------------------------------
(* C28: the order in which walkAst dispatches the nodes. *)

\* the nodes of a tree in the order of a recursive traversal: the node,
\* then the subtrees of its children from the i-th on, left to right
RECURSIVE PreOrderFrom(_, _)
PreOrderFrom(ast, i) ==
    IF ~ISNONTERMINAL(At(ast, 0)) \/ i > Len(ast) - 1 THEN <<>>
    ELSE (<<At(ast, i)>> \o PreOrderFrom(At(ast, i), 1)) \o PreOrderFrom(ast, i + 1)

PreOrder(ast) == <<ast>> \o PreOrderFrom(ast, 1)

\* the nodes a recursive traversal would still visit, given the stack:
\* the subtree of the top entry first
RECURSIVE Pending(_)
Pending(stk) ==
    IF stk = <<>> THEN <<>>
    ELSE PreOrder(LastOf(stk)[1]) \o Pending(SubSeq(stk, 1, Len(stk) - 1))

\* s is what is left of t after a front part of it
IsSuffix(s, t) ==
    Len(s) <= Len(t) /\ SubSeq(t, Len(t) - Len(s) + 1, Len(t)) = s

\* C28: the nodes still to be dispatched are always the rest of the
\* recursive pre-order of the whole tree, and an iteration that does not
\* fail dispatches the first of them and leaves the others: every node is
\* dispatched once, in pre-order, and the stack is empty at the end.
C28_WalkIsPreOrder ==
    /\ [](IsSuffix(Pending(stack), PreOrder(FileTree(src))))
    /\ [][~ctx.failed /\ stack # <<>> /\ ~ctx'.failed
            => /\ TopNode = Head(Pending(stack))
               /\ ctx' = processAst(ctx, Head(Pending(stack)))
               /\ Pending(stack') = Tail(Pending(stack))]_vars
    /\ [](Pending(stack) = <<>> <=> stack = <<>>)

\* the walk of a file with nested blocks has come to its end
C28_Witness ==
    /\ Done /\ Len(src) = 2 /\ src[2] = "defifdef"
    /\ Len(PreOrder(FileTree(src))) > 60
====
